---------------------------- MODULE Spec2Model ----------------------------
(***************************************************************************)
(* libconfd: the Processor (processor_old.go: Start, Stop and the three    *)
(* mode tasks) and the render pipeline of one template resource            *)
(* (resource.go: process, setVars, createStageFile, sync).                 *)
(*                                                                         *)
(* Four specifications share the module.  SpecProcessor runs concurrent    *)
(* callers of Start/Stop against the mode tasks, with a render (t.Process) *)
(* seen as a begin/end pair.  SpecLoops runs the same steps from a         *)
(* processor that was started and stopped before, so that one mode task    *)
(* is live at most.  SpecRender runs the pipeline of a single resource     *)
(* against a file system, a backend and external commands.  SpecCalls      *)
(* applies the functions of the library that depend on their arguments     *)
(* alone to arguments drawn from bounded sets.                             *)
(***************************************************************************)
EXTENDS Integers, Sequences, FiniteSets, TLC

\* ------------------------------------------------------------------ bounds
NumCallers == 2      \* concurrent callers of Start/Stop
MaxSpawn == 2        \* mode tasks spawned in one behaviour
MaxRes == 2          \* template resources found in the conf dir
MaxVersion == 1      \* largest etcd key version a watch reports
MaxVal == 2          \* values the backend key takes (0: the key is absent)
MaxKeyLen == 2       \* bytes of a PGP private key
MaxLen == 3          \* elements of a slice handed to reverse
IntBits == 3         \* width of the int of seq (64 in the build)
MaxPath == 3         \* characters of a key handed to GetValues
MaxSuffix == 3       \* characters of a returned key after the prefix
MaxPairs == 2        \* pairs one pull returns
MaxEvents == 2       \* events a watch delivers before it is cancelled

Callers == 1..NumCallers
Tasks == 1..MaxSpawn
Res == 1..MaxRes
Clients == {"env", "etcd"}
Options == [useOnetimeMode : BOOLEAN, useIntervalMode : BOOLEAN, useWatchMode : BOOLEAN]

VARIABLES
    \* ---- Processor (processor_old.go)
    runing,      \* p.runing, atomic int32
    stoped,      \* p.stoped, atomic int32
    wg,          \* p.wg, counter of the wait-group
    option,      \* p.option
    numRes,      \* resources MakeAllTemplateResourceProcessor finds
    cpc,         \* position of each caller inside Start / Stop
    nspawn,      \* tasks spawned so far (the next task is nspawn + 1)
    sinceStop,   \* tasks spawned since the last Stop that ran to its end
    task         \* the mode tasks: mode, client, position, loop index,
                 \* and for watch mode the local wait-group, the position
                 \* of each watcher, t.lastIndex of each resource and
                 \* the waitIndex of the WatchPrefix call it is blocked in,
                 \* and whether the call before its render returned an error

procVars == <<runing, stoped, wg, option, numRes, cpc, nspawn, sinceStop, task>>

VARIABLES
    \* ---- one TemplateResource and its surroundings (resource.go)
    tr,          \* the resource: CheckCmd, ReloadCmd, Mode, Src, keepStageFile,
                 \* noop, syncOnly (fixed once loaded)
    backend,     \* value of the watched key in the backend (0: absent)
    store,       \* t.store, the snapshot of the last pull (0: empty)
    dest,        \* the file t.Dest
    stage,       \* the stage file of the render under way, as it is on disk
    rpc,         \* position inside process()
    result,      \* what process() returns
    events,      \* commands and file operations of the render under way
    destBefore,  \* t.Dest as it was when the render began
    rendered,    \* what the template produced in the render under way
    prev         \* the render before: what it produced, what it did to t.Dest

renderVars == <<tr, backend, store, dest, stage, rpc, result, events,
                destBefore, rendered, prev>>

VARIABLES
    \* ---- one call of a function of the library, with what it returned
    call

vars == <<procVars, renderVars, call>>

\* --------------------------------------------------------------- Processor

IsRunning == runing = 1

isStoped == stoped = 1

WatchEnabled(client) == client = "etcd"

\* Mutant of SelectMode: the explicit interval flag is tested before onetime.
SelectModeIntervalFirst(opt, watchEnabled) ==
    IF opt.useIntervalMode THEN "interval"
    ELSE IF opt.useOnetimeMode THEN "onetime"
    ELSE IF opt.useWatchMode THEN "watch"
    ELSE IF watchEnabled THEN "watch"
    ELSE "interval"

\* The chain of ifs of Start, lines 33-69.
SelectMode(opt, watchEnabled) ==
    IF opt.useOnetimeMode THEN "onetime"
    ELSE IF opt.useIntervalMode THEN "interval"
    ELSE IF opt.useWatchMode THEN "watch"
    ELSE IF watchEnabled THEN "watch"
    ELSE "interval"

NoWatchers == [r \in Res |-> "none"]
NoIndex == [r \in Res |-> 0]
NoError == [r \in Res |-> FALSE]

\* A task slot before its go statement, and a task that has returned.
NoTask == [mode |-> "none", client |-> "env", pc |-> "none", idx |-> 0,
           lwg |-> 0, wpc |-> NoWatchers, lastIndex |-> NoIndex, waitIndex |-> NoIndex,
           werr |-> NoError, allErrors |-> <<>>, ret |-> <<>>]
DoneTask == [NoTask EXCEPT !.pc = "done"]

NewTask(mode, client) == [NoTask EXCEPT !.mode = mode, !.client = client, !.pc = "start"]

InitProcessor ==
    /\ runing = 0
    /\ stoped = 0
    /\ wg = 0
    /\ option = [useOnetimeMode |-> FALSE, useIntervalMode |-> FALSE, useWatchMode |-> FALSE]
    /\ numRes \in 0..MaxRes
    /\ cpc = [c \in Callers |-> "idle"]
    /\ nspawn = 0
    /\ sinceStop = 0
    /\ task = [i \in Tasks |-> NoTask]
    \* no resource is rendered
    /\ tr = [CheckCmd |-> "", ReloadCmd |-> "", Mode |-> "", Src |-> "static",
             keepStageFile |-> FALSE, noop |-> FALSE, syncOnly |-> FALSE,
             StageFile |-> "nil"]
    /\ backend = 0
    /\ store = 0
    /\ dest = [exists |-> FALSE, bytes |-> <<>>, mode |-> ""]
    /\ stage = [exists |-> FALSE, bytes |-> <<>>, mode |-> ""]
    /\ rpc = "idle"
    /\ result = "none"
    /\ events = <<>>
    /\ destBefore = [exists |-> FALSE, bytes |-> <<>>, mode |-> ""]
    /\ rendered = [staged |-> FALSE, bytes |-> <<>>]
    /\ prev = [staged |-> FALSE, bytes |-> <<>>, changed |-> FALSE, result |-> "none"]
    /\ call = [fn |-> "none"]

\* A processor that has been started and stopped before: the tasks of the
\* earlier Starts have returned, one Start is still to come.
InitLoops ==
    /\ runing = 0
    /\ stoped = 0
    /\ wg = 0
    /\ option = [useOnetimeMode |-> FALSE, useIntervalMode |-> FALSE, useWatchMode |-> FALSE]
    /\ numRes \in 0..MaxRes
    /\ cpc = [c \in Callers |-> "idle"]
    /\ nspawn = MaxSpawn - 1
    /\ sinceStop = 0
    /\ task = [i \in Tasks |-> IF i < MaxSpawn THEN DoneTask ELSE NoTask]
    \* no resource is rendered
    /\ tr = [CheckCmd |-> "", ReloadCmd |-> "", Mode |-> "", Src |-> "static",
             keepStageFile |-> FALSE, noop |-> FALSE, syncOnly |-> FALSE,
             StageFile |-> "nil"]
    /\ backend = 0
    /\ store = 0
    /\ dest = [exists |-> FALSE, bytes |-> <<>>, mode |-> ""]
    /\ stage = [exists |-> FALSE, bytes |-> <<>>, mode |-> ""]
    /\ rpc = "idle"
    /\ result = "none"
    /\ events = <<>>
    /\ destBefore = [exists |-> FALSE, bytes |-> <<>>, mode |-> ""]
    /\ rendered = [staged |-> FALSE, bytes |-> <<>>]
    /\ prev = [staged |-> FALSE, bytes |-> <<>>, changed |-> FALSE, result |-> "none"]
    /\ call = [fn |-> "none"]

\* Start, line 26: atomic.CompareAndSwapInt32(&p.runing, 0, 1) succeeds
\* when the flag holds 0.
CompareAndSwap(v) == v = 0

\* Start, line 26: the compare-and-swap wins.
StartCAS(c) ==
    /\ cpc[c] = "idle"
    /\ CompareAndSwap(runing)
    /\ nspawn + Cardinality({d \in Callers : cpc[d] = "start_won"}) < MaxSpawn
    /\ runing' = 1
    /\ cpc' = [cpc EXCEPT ![c] = "start_won"]
    /\ UNCHANGED <<stoped, wg, option, numRes, nspawn, sinceStop, task>>
    /\ UNCHANGED <<renderVars, call>>

\* Start, lines 26-29: the compare-and-swap fails, warning and return.
StartRejected(c) ==
    /\ cpc[c] = "idle"
    /\ ~CompareAndSwap(runing)
    /\ UNCHANGED procVars
    /\ UNCHANGED <<renderVars, call>>

\* Start, lines 31-69: p.option, the mode, wg.Add(1) and the go statement.
StartSpawn(c) ==
    /\ cpc[c] = "start_won"
    /\ \E o \in Options, cl \in Clients :
          /\ option' = o
          /\ task' = [task EXCEPT ![nspawn + 1] = NewTask(SelectMode(o, WatchEnabled(cl)), cl)]
    /\ nspawn' = nspawn + 1
    /\ wg' = wg + 1
    /\ sinceStop' = sinceStop + 1
    /\ cpc' = [cpc EXCEPT ![c] = "idle"]
    /\ UNCHANGED <<runing, stoped, numRes>>
    /\ UNCHANGED <<renderVars, call>>

\* Stop, lines 75-77: not running, return.
StopNotRunning(c) ==
    /\ cpc[c] = "idle"
    /\ ~IsRunning
    /\ UNCHANGED procVars
    /\ UNCHANGED <<renderVars, call>>

\* Stop, line 75: running, go on.
StopCheck(c) ==
    /\ cpc[c] = "idle"
    /\ IsRunning
    /\ cpc' = [cpc EXCEPT ![c] = "stop_set"]
    /\ UNCHANGED <<runing, stoped, wg, option, numRes, nspawn, sinceStop, task>>
    /\ UNCHANGED <<renderVars, call>>

\* A Stop that clears the running flag when it requests the stop, before it
\* has waited for the tasks.
StopSetClearsRuning(c) ==
    /\ cpc[c] = "stop_set"
    /\ stoped' = 1
    /\ runing' = 0
    /\ cpc' = [cpc EXCEPT ![c] = "stop_wait"]
    /\ UNCHANGED <<wg, option, numRes, nspawn, sinceStop, task>>
    /\ UNCHANGED <<renderVars, call>>

\* Stop, line 79.
StopSet(c) ==
    /\ cpc[c] = "stop_set"
    /\ stoped' = 1
    /\ cpc' = [cpc EXCEPT ![c] = "stop_wait"]
    /\ UNCHANGED <<runing, wg, option, numRes, nspawn, sinceStop, task>>
    /\ UNCHANGED <<renderVars, call>>

\* Stop, line 80: p.wg.Wait() returns once the counter is zero.
StopWait(c) ==
    /\ cpc[c] = "stop_wait"
    /\ wg = 0
    /\ cpc' = [cpc EXCEPT ![c] = "stop_runing"]
    /\ UNCHANGED <<runing, stoped, wg, option, numRes, nspawn, sinceStop, task>>
    /\ UNCHANGED <<renderVars, call>>

\* Stop, line 82.
StopClearRuning(c) ==
    /\ cpc[c] = "stop_runing"
    /\ runing' = 0
    /\ cpc' = [cpc EXCEPT ![c] = "stop_stoped"]
    /\ UNCHANGED <<stoped, wg, option, numRes, nspawn, sinceStop, task>>
    /\ UNCHANGED <<renderVars, call>>

\* Stop, line 83, and the return.
StopClearStoped(c) ==
    /\ cpc[c] = "stop_stoped"
    /\ stoped' = 0
    /\ sinceStop' = 0
    /\ cpc' = [cpc EXCEPT ![c] = "idle"]
    /\ UNCHANGED <<runing, wg, option, numRes, nspawn, task>>
    /\ UNCHANGED <<renderVars, call>>

\* What no mode task changes.
callVars == <<runing, stoped, option, numRes, cpc, nspawn, sinceStop, renderVars, call>>

\* MakeAllTemplateResourceProcessor(p.config, client): the resources of the
\* conf dir, or an error.
MakeOutcomes == {"ok", "err"}

\* A step of task i alone: its record becomes t, the wait-group is left.
TaskStep(i, t) ==
    /\ task' = [task EXCEPT ![i] = t]
    /\ wg' = wg

\* defer p.wg.Done() of the three mode tasks (lines 89, 117, 147).
TaskReturn(i) ==
    /\ task' = [task EXCEPT ![i] = DoneTask]
    /\ wg' = wg - 1

\* The error values of runOnce: nil, the error of MakeAllTemplateResourceProcessor,
\* the error of the render of resource r.
Nil == <<>>
MakeError == <<0>>
ProcessError(r) == <<r>>

\* runOnce returns e (lines 93, 108, 111) after its deferred p.wg.Done().
RunOnceReturn(i, e) ==
    /\ task' = [task EXCEPT ![i] = [DoneTask EXCEPT !.ret = e]]
    /\ wg' = wg - 1

\* runOnce, lines 107-111: the first of the collected errors, or nil.
FirstError(allErrors) == IF Len(allErrors) > 0 THEN allErrors[1] ELSE Nil

\* Start, line 37: `go p.runOnce(client, opts...)`.  A go statement
\* discards the results of the function it starts, and Start itself returns
\* nothing: whatever runOnce returns, the caller of Start receives nil.
GoResult(e) == Nil

\* runOnce, lines 91-94.
runOnce_Make(i) ==
    /\ task[i].mode = "onetime" /\ task[i].pc = "start"
    /\ \E m \in MakeOutcomes :
          IF m = "err" THEN RunOnceReturn(i, MakeError)
          ELSE TaskStep(i, [task[i] EXCEPT !.pc = "loop", !.idx = 1])
    /\ UNCHANGED callVars

\* runOnce, lines 97-102 and 107-111: the head of the range loop, the break
\* on isStoped, the call of t.Process.
runOnce_Next(i) ==
    /\ task[i].mode = "onetime" /\ task[i].pc = "loop"
    /\ IF task[i].idx > numRes \/ isStoped
       THEN RunOnceReturn(i, FirstError(task[i].allErrors))
       ELSE TaskStep(i, [task[i] EXCEPT !.pc = "render"])
    /\ UNCHANGED callVars

\* runOnce, lines 102-105: t.Process returns; its error is appended to
\* allErrors and logged.
runOnce_Processed(i) ==
    /\ task[i].mode = "onetime" /\ task[i].pc = "render"
    /\ \E ok \in BOOLEAN :
          TaskStep(i, [task[i] EXCEPT
              !.pc = "loop",
              !.idx = @ + 1,
              !.allErrors = IF ok THEN @ ELSE Append(@, ProcessError(task[i].idx))])
    /\ UNCHANGED callVars

\* runInIntervalMode, lines 119-128: the head of the for loop.
interval_Top(i) ==
    /\ task[i].mode = "interval" /\ task[i].pc = "start"
    /\ IF isStoped THEN TaskReturn(i)
       ELSE \E m \in MakeOutcomes :
               IF m = "err" THEN TaskReturn(i)
               ELSE IF numRes = 0 THEN TaskStep(i, [task[i] EXCEPT !.pc = "sleep"])
               ELSE TaskStep(i, [task[i] EXCEPT !.pc = "loop", !.idx = 1])
    /\ UNCHANGED callVars

\* runInIntervalMode, lines 130-135: isStoped before every resource.
interval_Next(i) ==
    /\ task[i].mode = "interval" /\ task[i].pc = "loop"
    /\ IF isStoped THEN TaskReturn(i)
       ELSE TaskStep(i, [task[i] EXCEPT !.pc = "render"])
    /\ UNCHANGED callVars

\* The resources whose render can fail in interval and watch mode (a
\* check_cmd that may exit non-zero); the renders of the others succeed.
FailingRes == {1}
RenderOutcomes(r) == IF r \in FailingRes THEN BOOLEAN ELSE {TRUE}

\* The interval loop that ends its pass at a render error.
IntervalGoesOnEndsPass(t) == [t EXCEPT !.pc = "sleep", !.idx = 0]

\* runInIntervalMode, lines 130-140: after t.Process has returned, with an
\* error or without, the range loop goes on to the next resource, and after
\* the last one to the sleep.
IntervalGoesOn(t) ==
    IF t.idx < numRes THEN [t EXCEPT !.pc = "loop", !.idx = @ + 1]
    ELSE [t EXCEPT !.pc = "sleep", !.idx = 0]

\* runInIntervalMode, lines 135-138: t.Process renders.  A render that
\* succeeds returns nil; one that fails has its error to deliver to
\* HookError before Process returns it.
interval_Processed(i) ==
    /\ task[i].mode = "interval" /\ task[i].pc = "render"
    /\ \E ok \in RenderOutcomes(task[i].idx) :
          IF ok THEN TaskStep(i, IntervalGoesOn(task[i]))
          ELSE TaskStep(i, [task[i] EXCEPT !.pc = "hook"])
    /\ UNCHANGED callVars

\* The error is delivered to HookError, t.Process returns it and the loop
\* logs it (lines 135-137).
interval_Hook(i) ==
    /\ task[i].mode = "interval" /\ task[i].pc = "hook"
    /\ TaskStep(i, IntervalGoesOn(task[i]))
    /\ UNCHANGED callVars

\* runInIntervalMode, line 140.
interval_Sleep(i) ==
    /\ task[i].mode = "interval" /\ task[i].pc = "sleep"
    /\ TaskStep(i, [task[i] EXCEPT !.pc = "start"])
    /\ UNCHANGED callVars

\* runInWatchMode, lines 149-161: the resources, one watcher each.
watch_Make(i) ==
    /\ task[i].mode = "watch" /\ task[i].pc = "start"
    /\ \E m \in MakeOutcomes :
          IF m = "err" THEN TaskReturn(i)
          ELSE TaskStep(i, [task[i] EXCEPT
                   !.pc = "poll",
                   !.lwg = numRes,
                   !.wpc = [r \in Res |-> IF r <= numRes THEN "top" ELSE "none"]])
    /\ UNCHANGED callVars

\* runInWatchMode, lines 163-170: the poll sees the stop flag.  (With the
\* flag clear the supervisor sleeps and polls again: no change of state.)
watch_Poll(i) ==
    /\ task[i].mode = "watch" /\ task[i].pc = "poll"
    /\ isStoped
    /\ TaskStep(i, [task[i] EXCEPT !.pc = "send"])
    /\ UNCHANGED callVars

\* The watchers a send on stopChan can complete with: those waiting for
\* the channel inside WatchPrefix.  stopChan is unbuffered (line 156), so
\* the send completes with exactly one of them.
Receivers(t) == {r \in Res : t.wpc[r] = "blocked"}

\* runInWatchMode, line 165: stopChan <- true.  The receiving WatchPrefix
\* returns index 0; monitorPrefix stores it (line 196) and calls t.Process
\* (line 197).
watch_Send(i) ==
    /\ task[i].mode = "watch" /\ task[i].pc = "send"
    /\ \E r \in Receivers(task[i]) :
          TaskStep(i, [task[i] EXCEPT !.pc = "wait", !.wpc[r] = "render",
                                      !.lastIndex[r] = 0, !.waitIndex[r] = 0])
    /\ UNCHANGED callVars

\* runInWatchMode, lines 172-173: wg.Wait() and the return.
watch_Wait(i) ==
    /\ task[i].mode = "watch" /\ task[i].pc = "wait"
    /\ task[i].lwg = 0
    /\ TaskReturn(i)
    /\ UNCHANGED callVars

\* WatchPrefix as called at line 191, up to the point where it returns at
\* once or blocks.
\*   EnvClient (part_000 185-188): waits for stopChan whatever waitIndex is.
\*   _EtcdClient (etcdv.go 151-163): waitIndex 0 returns 1; a failing
\*   clientv3.New returns 1 and the error; else it watches.
WatchPrefixCall(client, waitIndex) ==
    IF client = "env" THEN {[blocks |-> TRUE, index |-> 0, err |-> FALSE]}
    ELSE IF waitIndex = 0 THEN {[blocks |-> FALSE, index |-> 1, err |-> FALSE]}
    ELSE {[blocks |-> FALSE, index |-> 1, err |-> TRUE],
          [blocks |-> TRUE, index |-> 0, err |-> FALSE]}

\* A monitorPrefix that leaves its loop when WatchPrefix returns an error.
WatchReturnedEndsOnError(t, r, w) ==
    IF w.err THEN [t EXCEPT !.wpc[r] = "done", !.lwg = @ - 1, !.lastIndex[r] = 0]
    ELSE [t EXCEPT !.wpc[r] = "render", !.lastIndex[r] = w.index, !.werr[r] = w.err]

\* monitorPrefix, lines 191-197: WatchPrefix has returned (index, err); the
\* error, if any, is logged, the index is stored and t.Process is called.
\* werr holds, during that render, whether the call returned an error.
WatchReturned(t, r, w) ==
    [t EXCEPT !.wpc[r] = "render", !.lastIndex[r] = w.index, !.werr[r] = w.err]

\* A monitorPrefix that hands WatchPrefix the same index at every call.
WaitIndexFixed(t, r) == 1

\* monitorPrefix, line 191: the waitIndex handed to WatchPrefix.
WaitIndex(t, r) == t.lastIndex[r]

\* monitorPrefix, lines 186-197: isStoped, the call of WatchPrefix.  While
\* the call blocks, waitIndex holds the index it was made with.
monitor_Top(i, r) ==
    /\ task[i].mode = "watch" /\ task[i].wpc[r] = "top"
    /\ IF isStoped
       THEN TaskStep(i, [task[i] EXCEPT !.wpc[r] = "done", !.lwg = @ - 1, !.lastIndex[r] = 0])
       ELSE \E w \in WatchPrefixCall(task[i].client, WaitIndex(task[i], r)) :
               IF w.blocks
               THEN TaskStep(i, [task[i] EXCEPT !.wpc[r] = "blocked",
                                                !.waitIndex[r] = WaitIndex(task[i], r)])
               ELSE TaskStep(i, WatchReturned(task[i], r, w))
    /\ UNCHANGED callVars

\* _EtcdClient.WatchPrefix, etcdv.go 180-196: an event on a watched key
\* returns its version; the watch channel closing returns 0.
monitor_Event(i, r) ==
    /\ task[i].mode = "watch" /\ task[i].wpc[r] = "blocked"
    /\ task[i].client = "etcd"
    /\ \E v \in 0..MaxVersion :
          TaskStep(i, [task[i] EXCEPT !.wpc[r] = "render",
                                      !.lastIndex[r] = v, !.waitIndex[r] = 0])
    /\ UNCHANGED callVars

\* monitorPrefix, lines 186 and 197-200: after t.Process has returned, with
\* an error or without, the for loop goes back to its head.
WatcherGoesOn(t, r) == [t EXCEPT !.wpc[r] = "top", !.werr[r] = FALSE]

\* monitorPrefix, lines 197-199: t.Process renders.  A render that succeeds
\* returns nil; one that fails has its error to deliver to HookError
\* before Process returns it.
monitor_Processed(i, r) ==
    /\ task[i].mode = "watch" /\ task[i].wpc[r] = "render"
    /\ \E ok \in RenderOutcomes(r) :
          IF ok THEN TaskStep(i, WatcherGoesOn(task[i], r))
          ELSE TaskStep(i, [task[i] EXCEPT !.wpc[r] = "hook", !.werr[r] = FALSE])
    /\ UNCHANGED callVars

\* The error is delivered to HookError, t.Process returns it and the
\* watcher logs it (lines 197-199).
monitor_Hook(i, r) ==
    /\ task[i].mode = "watch" /\ task[i].wpc[r] = "hook"
    /\ TaskStep(i, WatcherGoesOn(task[i], r))
    /\ UNCHANGED callVars

\* The steps of watch task i that need nothing from outside the processor
\* (no backend event).
WatchTaskStep(i) ==
    \/ watch_Make(i)
    \/ watch_Poll(i)
    \/ watch_Send(i)
    \/ watch_Wait(i)
    \/ \E r \in Res : monitor_Top(i, r) \/ monitor_Processed(i, r) \/ monitor_Hook(i, r)

CallerNext ==
    \E c \in Callers :
        \/ StartCAS(c)
        \/ StartRejected(c)
        \/ StartSpawn(c)
        \/ StopNotRunning(c)
        \/ StopCheck(c)
        \/ StopSet(c)
        \/ StopWait(c)
        \/ StopClearRuning(c)
        \/ StopClearStoped(c)

TaskNext ==
    \E i \in Tasks :
        \/ runOnce_Make(i)
        \/ runOnce_Next(i)
        \/ runOnce_Processed(i)
        \/ interval_Top(i)
        \/ interval_Next(i)
        \/ interval_Processed(i)
        \/ interval_Hook(i)
        \/ interval_Sleep(i)
        \/ watch_Make(i)
        \/ watch_Poll(i)
        \/ watch_Send(i)
        \/ watch_Wait(i)
        \/ \E r \in Res :
              \/ monitor_Top(i, r)
              \/ monitor_Event(i, r)
              \/ monitor_Processed(i, r)
              \/ monitor_Hook(i, r)

NextProcessor == CallerNext \/ TaskNext

\* ---------------------------------------------------------- render pipeline

\* A file on disk: its bytes and its permission bits.
NoFile == [exists |-> FALSE, bytes |-> <<>>, mode |-> ""]
File(b, m) == [exists |-> TRUE, bytes |-> b, mode |-> m]

\* setFileMode, lines 367-386: t.FileMode, from t.Mode or from the dest d
\* that exists when the render begins.
FileMode(t, d) == IF t.Mode = "" THEN (IF d.exists THEN d.mode ELSE "0644") ELSE t.Mode

\* ioutil.WriteFile(name, b, perm), line 269: a file that exists is
\* truncated and written and keeps its permission bits; perm is used only
\* when the file is created.
WriteFile(d, b, perm) == IF d.exists THEN [d EXCEPT !.bytes = b] ELSE File(b, perm)

NotStaged == [staged |-> FALSE, bytes |-> <<>>]
NoPrev == [staged |-> FALSE, bytes |-> <<>>, changed |-> FALSE, result |-> "none"]

Resources ==
    [CheckCmd : {"", "check"}, ReloadCmd : {"", "reload"}, Mode : {"", "0644", "bad"},
     Src : {"missing", "unparsable", "static", "getv"},
     keepStageFile : BOOLEAN, noop : BOOLEAN, syncOnly : BOOLEAN,
     StageFile : {"nil"}]

\* tmpl.Execute(temp, nil), line 207: a template without keys, or one that
\* prints getv of the key; getv of an absent key is an error.
ExecuteFails(src, st) == src = "getv" /\ st = 0
Execute(src, st) == IF src = "static" THEN <<"static">> ELSE <<"port=", st>>

\* What a write that fails part-way leaves: a proper prefix of the bytes.
Prefixes(b) == {SubSeq(b, 1, n) : n \in 0..(Len(b) - 1)}

\* sameConfig(staged, t.Dest): byte equality, a missing dest differs.
sameConfig(st, d) == d.exists /\ d.bytes = st.bytes

\* sync, lines 229-233: the deferred os.Remove(staged).
RemovesStageOnReturn(t) == ~t.keepStageFile

\* A sync that does not look at noop.
ReturnsAtNoopNever(t) == FALSE

\* sync, line 242.
ReturnsAtNoop(t) == t.noop

\* A sync that takes every comparison for a difference.
OutOfSyncAlways(ok) == TRUE

\* sync, line 246.
OutOfSync(ok) == ~ok

\* A sync that goes on to the rename whatever the check said.
AfterCheckAlwaysRename(pass) == "rename"

\* sync, lines 249-251: a failed check ends sync.
AfterCheck(pass) == IF pass THEN "rename" ELSE "done"

\* A fallback that drops the error of WriteFile.
FallbackErrorDropped(o) == "none"

\* sync, lines 268-273: the error of ioutil.WriteFile is returned.
FallbackError(o) == IF o = "fail" THEN "WriteError" ELSE "none"

\* A sync that returns nil whatever the reload command said.
ReloadResultDropped(pass) == "ok"

\* sync, lines 280-282: the error of reload is returned.
ReloadResult(pass) == IF pass THEN "ok" ELSE "ReloadFailed"

\* A sync that runs the check command without looking at syncOnly.
RunsCheckIgnoresSyncOnly(t) == t.CheckCmd # ""

\* sync, line 248 and line 279.
RunsCheck(t) == ~t.syncOnly /\ t.CheckCmd # ""
RunsReload(t) == ~t.syncOnly /\ t.ReloadCmd # ""

InitRender ==
    /\ tr \in Resources
    /\ backend \in 0..MaxVal
    /\ store = 0
    /\ dest \in {NoFile, File(<<"old">>, "0600")}
    /\ stage = NoFile
    /\ rpc = "idle"
    /\ result = "none"
    /\ events = <<>>
    /\ destBefore = dest
    /\ rendered = NotStaged
    /\ prev = NoPrev
    \* the processor is never started
    /\ runing = 0
    /\ stoped = 0
    /\ wg = 0
    /\ option = [useOnetimeMode |-> FALSE, useIntervalMode |-> FALSE, useWatchMode |-> FALSE]
    /\ numRes = 0
    /\ cpc = [c \in Callers |-> "idle"]
    /\ nspawn = 0
    /\ sinceStop = 0
    /\ task = [i \in Tasks |-> NoTask]
    /\ call = [fn |-> "none"]

\* A process() that returns nil where a step has failed.
FailDropped(err) ==
    /\ rpc' = "done"
    /\ result' = "ok"

\* process() returns err before sync has run: nothing is deferred.
Fail(err) ==
    /\ rpc' = "done"
    /\ result' = err

\* sync returns res; st is the stage file as the step leaves it.
SyncReturn(res, st) ==
    /\ rpc' = "done"
    /\ result' = res
    /\ stage' = IF RemovesStageOnReturn(tr) THEN NoFile ELSE st

\* process, lines 350-353, and setFileMode, lines 367-386.
setFileMode ==
    /\ rpc = "idle"
    /\ destBefore' = dest
    /\ events' = <<>>
    /\ rendered' = NotStaged
    /\ stage' = NoFile
    /\ \E statOk \in BOOLEAN :
          IF tr.Mode = "bad" \/ (tr.Mode = "" /\ dest.exists /\ ~statOk)
          THEN Fail("ModeError")
          ELSE rpc' = "setVars" /\ result' = "none"
    /\ UNCHANGED <<tr, backend, store, dest, prev>>
    /\ UNCHANGED <<procVars, call>>

\* A setVars that purges the store before it looks at the error.
StoreOnErrorPurged(st) == 0

\* setVars, lines 167-170: GetValues has failed, setVars returns before
\* t.store.Purge(): the store is what it was.
StoreOnError(st) == st

\* setVars, lines 160-179.
setVars ==
    /\ rpc = "setVars"
    /\ \E ok \in BOOLEAN :
          IF ok THEN /\ store' = backend
                     /\ rpc' = "createStageFile"
                     /\ result' = result
          ELSE Fail("BackendError") /\ store' = StoreOnError(store)
    /\ UNCHANGED <<tr, backend, dest, stage, events, destBefore, rendered, prev>>
    /\ UNCHANGED <<procVars, call>>

\* createStageFile, lines 185-220.
createStageFile ==
    /\ rpc = "createStageFile"
    /\ \E tempOk \in BOOLEAN :
          IF tr.Src = "missing" THEN Fail("MissingTemplate") /\ UNCHANGED <<tr, stage, rendered>>
          ELSE IF tr.Src = "unparsable" THEN Fail("ParseError") /\ UNCHANGED <<tr, stage, rendered>>
          ELSE IF ~tempOk THEN Fail("StageError") /\ UNCHANGED <<tr, stage, rendered>>
          ELSE IF ExecuteFails(tr.Src, store)
               THEN Fail("TemplateError") /\ UNCHANGED <<tr, stage, rendered>>
          ELSE /\ stage' = File(Execute(tr.Src, store), FileMode(tr, destBefore))
               /\ tr' = [tr EXCEPT !.StageFile = "temp"]
               /\ rendered' = [staged |-> TRUE, bytes |-> Execute(tr.Src, store)]
               /\ rpc' = "sync"
               /\ result' = result
    /\ UNCHANGED <<backend, store, dest, events, destBefore, prev>>
    /\ UNCHANGED <<procVars, call>>

\* sync, lines 227-252 and 285-290: the comparison, noop, in sync or not.
sync_Compare ==
    /\ rpc = "sync"
    /\ IF ReturnsAtNoop(tr) THEN SyncReturn("ok", stage)
       ELSE IF OutOfSync(sameConfig(stage, dest))
            THEN /\ rpc' = IF RunsCheck(tr) THEN "check" ELSE "rename"
                 /\ UNCHANGED <<result, stage>>
            ELSE SyncReturn("ok", stage)
    /\ UNCHANGED <<tr, backend, store, dest, events, destBefore, rendered, prev>>
    /\ UNCHANGED <<procVars, call>>

\* sync, lines 248-252, and check, lines 299-311.
sync_Check ==
    /\ rpc = "check"
    /\ \E pass \in BOOLEAN :
          /\ events' = Append(events, IF pass THEN "check:ok" ELSE "check:fail")
          /\ IF AfterCheck(pass) = "rename"
             THEN rpc' = "rename" /\ UNCHANGED <<result, stage>>
             ELSE SyncReturn("CheckFailed", stage)
    /\ UNCHANGED <<tr, backend, store, dest, destBefore, rendered, prev>>
    /\ UNCHANGED <<procVars, call>>

\* After dest has been written, lines 279-290.
Swapped(st) ==
    IF RunsReload(tr) THEN rpc' = "reload" /\ result' = result /\ stage' = st
    ELSE SyncReturn("ok", st)

\* sync, lines 256-258 and 275-277: os.Rename(staged, t.Dest).
sync_Rename ==
    /\ rpc = "rename"
    /\ \E o \in {"ok", "busy", "error"} :
          /\ events' = Append(events, IF o = "ok" THEN "rename:ok"
                                      ELSE IF o = "busy" THEN "rename:busy"
                                      ELSE "rename:error")
          /\ IF o = "ok" THEN dest' = stage /\ Swapped(NoFile)
             ELSE IF o = "busy"
                  THEN rpc' = "fallback" /\ UNCHANGED <<dest, result, stage>>
             ELSE dest' = dest /\ SyncReturn("RenameError", stage)
    /\ UNCHANGED <<tr, backend, store, destBefore, rendered, prev>>
    /\ UNCHANGED <<procVars, call>>

\* sync, lines 258-274: read the stage file, write it over t.Dest.  A write
\* that fails leaves t.Dest as it was (the open failed) or cut short.
sync_Fallback ==
    /\ rpc = "fallback"
    /\ \E o \in {"readerror", "ok", "fail"} :
          IF o = "readerror"
          THEN /\ SyncReturn("ReadError", stage)
               /\ UNCHANGED <<dest, events>>
          ELSE /\ events' = Append(events, IF o = "ok" THEN "write:ok" ELSE "write:fail")
               /\ dest' \in IF o = "ok"
                             THEN {WriteFile(dest, stage.bytes, FileMode(tr, destBefore))}
                             ELSE {dest} \cup {WriteFile(dest, b, FileMode(tr, destBefore)) :
                                                  b \in Prefixes(stage.bytes)}
               /\ IF FallbackError(o) = "none" THEN Swapped(stage)
                  ELSE SyncReturn(FallbackError(o), stage)
    /\ UNCHANGED <<tr, backend, store, destBefore, rendered, prev>>
    /\ UNCHANGED <<procVars, call>>

\* sync, lines 279-284, and reload, lines 315-317.
sync_Reload ==
    /\ rpc = "reload"
    /\ \E pass \in BOOLEAN :
          /\ events' = Append(events, IF pass THEN "reload:ok" ELSE "reload:fail")
          /\ SyncReturn(ReloadResult(pass), stage)
    /\ UNCHANGED <<tr, backend, store, dest, destBefore, rendered, prev>>
    /\ UNCHANGED <<procVars, call>>

\* process has returned; the caller goes on.
process_Return ==
    /\ rpc = "done"
    /\ rpc' = "idle"
    /\ prev' = [staged |-> rendered.staged, bytes |-> rendered.bytes,
                changed |-> dest # destBefore, result |-> result]
    /\ UNCHANGED <<tr, backend, store, dest, stage, result, events, destBefore, rendered>>
    /\ UNCHANGED <<procVars, call>>

\* The backend key is set, changed or deleted by someone else.
BackendChange ==
    /\ \E v \in 0..MaxVal : v # backend /\ backend' = v
    /\ UNCHANGED <<tr, store, dest, stage, rpc, result, events, destBefore, rendered, prev>>
    /\ UNCHANGED <<procVars, call>>

NextRender ==
    \/ setFileMode
    \/ setVars
    \/ createStageFile
    \/ sync_Compare
    \/ sync_Check
    \/ sync_Rename
    \/ sync_Fallback
    \/ sync_Reload
    \/ process_Return
    \/ BackendChange

\* -------------------------------------------------------- library functions

\* The function call `call` records: fn applied to in returned out.
Called(fn, in, out) == [fn |-> fn, in |-> in, out |-> out]

\* PGP private keys, as byte strings; nil and the empty key are <<>>.
PGPKeys == UNION {[1..n -> 1..2] : n \in 0..MaxKeyLen}

\* part_002, lines 44-50, and lines 52-82.
KVStoreFuncs == {"exists", "ls", "lsdir", "get", "gets", "getv", "getvs"}
MoreFuncs ==
    {"base", "split", "json", "jsonArray", "dir", "map", "getenv", "join",
     "datetime", "toUpper", "toLower", "contains", "replace", "trimSuffix",
     "lookupIP", "lookupSRV", "fileExists", "base64Encode", "base64Decode",
     "parseBool", "reverse", "sortByLength", "sortKVByLength", "add", "sub",
     "div", "mod", "mul", "seq", "atoi"}
\* part_002, lines 87-90, and resource.go, lines 107-155.
CryptFuncs == {"cget", "cgets", "cgetv", "cgetvs"}

\* A constructor that registers the crypt functions whatever the key is.
HasPGPKeyAlways(pgpPrivateKey) == TRUE

\* part_002, line 86, and resource.go, line 85: len(key) > 0.
HasPGPKey(pgpPrivateKey) == Len(pgpPrivateKey) > 0

\* NewTemplateFuncMap, part_002 lines 36-94: the names of the map it returns.
NewTemplateFuncMap(pgpPrivateKey) ==
    KVStoreFuncs \cup MoreFuncs
        \cup (IF HasPGPKey(pgpPrivateKey) THEN CryptFuncs ELSE {})

\* newFuncMap() and tr.store.FuncMap of resource.go lines 72-75: the
\* general functions and the functions of the KV snapshot.
newFuncMap == MoreFuncs
storeFuncMap == KVStoreFuncs

\* NewTemplateResource, resource.go lines 72-88: the names of tr.funcMap.
NewTemplateResource(pgpPrivateKey) ==
    newFuncMap \cup storeFuncMap
        \cup (IF HasPGPKey(pgpPrivateKey) THEN CryptFuncs ELSE {})

Call_NewTemplateFuncMap ==
    /\ call.fn = "none"
    /\ \E k \in PGPKeys : call' = Called("NewTemplateFuncMap", k, NewTemplateFuncMap(k))
    /\ UNCHANGED <<procVars, renderVars>>

Call_NewTemplateResource ==
    /\ call.fn = "none"
    /\ \E k \in PGPKeys : call' = Called("NewTemplateResource", k, NewTemplateResource(k))
    /\ UNCHANGED <<procVars, renderVars>>

\* The slices reverse is applied to: []string, []KVPair, and one of another
\* element type.
Strings == {"a", "b", "c"}
KVPairs == {[Key |-> "/a", Value |-> "1"], [Key |-> "/a", Value |-> "2"],
            [Key |-> "/b", Value |-> "1"]}
SlicesOf(S) == UNION {[1..n -> S] : n \in 0..MaxLen}
Slice(type, v) == [type |-> type, v |-> v]

\* v[left], v[right] = v[right], v[left]
Swap(v, left, right) == [v EXCEPT ![left] = v[right], ![right] = v[left]]

\* A loop that stops one pair early.
ReverseGoesOnShort(left, right) == left + 1 < right

\* Reverse, part_002 lines 322 and 327: the loop condition.
ReverseGoesOn(left, right) == left < right

\* Reverse, part_002 lines 322-324 (and 327-329): the loop, with the
\* indices counted from 1.
RECURSIVE ReverseLoop(_, _, _)
ReverseLoop(v, left, right) ==
    IF ReverseGoesOn(left, right)
    THEN ReverseLoop(Swap(v, left, right), left + 1, right - 1)
    ELSE v

\* Reverse, part_002 lines 318-332: a slice of another type is returned as
\* it is.
Reverse(values) ==
    IF values.type \in {"[]string", "[]KVPair"}
    THEN [values EXCEPT !.v = ReverseLoop(values.v, 1, Len(values.v))]
    ELSE values

Call_Reverse ==
    /\ call.fn = "none"
    /\ \/ \E v \in SlicesOf(Strings) :
             call' = Called("reverse", Slice("[]string", v), Reverse(Slice("[]string", v)))
       \/ \E v \in SlicesOf(KVPairs) :
             call' = Called("reverse", Slice("[]KVPair", v), Reverse(Slice("[]KVPair", v)))
       \/ \E v \in SlicesOf({1, 2}) :
             call' = Called("reverse", Slice("[]int", v), Reverse(Slice("[]int", v)))
    /\ UNCHANGED <<procVars, renderVars>>

\* The int of the build, two's complement on IntBits bits.
MinInt == -(2 ^ (IntBits - 1))
MaxInt == 2 ^ (IntBits - 1) - 1
Ints == MinInt..MaxInt
WrapInt(n) == ((n - MinInt) % (2 ^ IntBits)) + MinInt

\* Seq, part_002 lines 366-369: the loop `for i := first; i <= last; i++`.
\* i++ wraps; a loop still running after every int has been appended once
\* runs for ever (until memory is exhausted): returns is FALSE then.
RECURSIVE SeqLoop(_, _, _, _)
SeqLoop(i, last, arr, left) ==
    IF ~(i <= last) THEN [returns |-> TRUE, arr |-> arr]
    ELSE IF left = 0 THEN [returns |-> FALSE, arr |-> arr]
    ELSE SeqLoop(WrapInt(i + 1), last, Append(arr, i), left - 1)

\* Seq, part_002 lines 364-372.
Seq_(first, last) == SeqLoop(first, last, <<>>, 2 ^ IntBits)

Call_Seq ==
    /\ call.fn = "none"
    /\ \E first \in Ints, last \in Ints :
          call' = Called("seq", <<first, last>>, Seq_(first, last))
    /\ UNCHANGED <<procVars, renderVars>>

\* Strings are sequences of characters.
HasPrefix(str, prefix) ==
    Len(prefix) <= Len(str) /\ SubSeq(str, 1, Len(prefix)) = prefix
TrimPrefix(str, prefix) ==
    IF HasPrefix(str, prefix) THEN SubSeq(str, Len(prefix) + 1, Len(str)) ELSE str
ToUpper(str) == [k \in 1..Len(str) |-> IF str[k] = "a" THEN "A" ELSE str[k]]
ToLower(str) == [k \in 1..Len(str) |-> IF str[k] = "A" THEN "a" ELSE str[k]]
\* strings.NewReplacer(old, new).Replace(str), old and new one character.
Replace(str, old, new) == [k \in 1..Len(str) |-> IF str[k] = old THEN new ELSE str[k]]

\* The keys handed to GetValues: one key of up to MaxPath characters, or
\* two shorter ones.
PathChars == {"/", "a", "A", "_"}
Paths(n) == UNION {[1..m -> PathChars] : m \in 0..n}
KeyLists == {<<k>> : k \in Paths(MaxPath)} \cup (Paths(MaxPath - 1) \X Paths(MaxPath - 1))

\* EnvClient.GetValues, part_000 lines 157-162 and 163-168.
transform(key) == ToUpper(Replace(TrimPrefix(key, <<"/">>), "/", "_"))
clean(key) == Replace(ToLower(<<"/">> \o key), "_", "/")

\* The environments: variables named by these names, each holding its own
\* name as its value.
EnvNames == {<<"A">>, <<"a">>, <<"A", "_", "A">>, <<"A", "A">>, <<"a", "_", "A">>}
Environs == SUBSET EnvNames

\* EnvClient.GetValues, part_000 lines 147-183: the maps it can return.
\* Two variables whose names clean to one key are written to the same entry
\* of vars, in the order the map iteration takes: either value can stay.
EnvGetValues(keys, envMap) ==
    LET matched == {e \in envMap :
                       \E n \in 1..Len(keys) : HasPrefix(e, transform(keys[n]))}
        cleaned == {clean(e) : e \in matched}
    IN {{<<k, f[k]>> : k \in cleaned} :
           f \in {g \in [cleaned -> matched] : \A k \in cleaned : clean(g[k]) = k}}

Call_EnvGetValues ==
    /\ call.fn = "none"
    /\ \E keys \in KeyLists, envMap \in Environs :
          \E m \in EnvGetValues(keys, envMap) :
             call' = Called("EnvClient.GetValues", [keys |-> keys, backend |-> envMap],
                            [vars |-> m, err |-> "nil"])
    /\ UNCHANGED <<procVars, renderVars>>

\* The etcd key spaces: these keys, each holding its own name as its value.
EtcdKeys == {<<"/", "a">>, <<"/", "a", "/", "a">>, <<"/", "a", "a">>, <<"/", "A">>, <<"/", "_">>}
EtcdStores == SUBSET EtcdKeys

\* _EtcdClient.GetValues, etcdv.go lines 128-149: client.Get with
\* WithPrefix for every key; failed is the number of the key whose Get
\* fails (0: clientv3.New fails, more than len(keys): none fails).
EtcdGetValues(keys, kvs, failed) ==
    [vars |-> {<<k, k>> : k \in {x \in kvs :
                   \E n \in 1..Len(keys) : n < failed /\ HasPrefix(x, keys[n])}},
     err |-> IF failed <= Len(keys) THEN "error" ELSE "nil"]

Call_EtcdGetValues ==
    /\ call.fn = "none"
    /\ \E keys \in KeyLists, kvs \in EtcdStores, failed \in 0..3 :
          call' = Called("_EtcdClient.GetValues",
                         [keys |-> keys, backend |-> kvs, failed |-> failed <= Len(keys)],
                         EtcdGetValues(keys, kvs, failed))
    /\ UNCHANGED <<procVars, renderVars>>

\* path.Clean of a rooted path without dot elements: runs of slashes become
\* one slash, a trailing slash goes unless the path is the root.
RECURSIVE Collapse(_)
Collapse(str) ==
    IF Len(str) < 2 THEN str
    ELSE IF str[1] = "/" /\ str[2] = "/" THEN Collapse(Tail(str))
    ELSE <<str[1]>> \o Collapse(Tail(str))
Clean(str) ==
    LET c == Collapse(str)
    IN IF Len(c) > 1 /\ c[Len(c)] = "/" THEN SubSeq(c, 1, Len(c) - 1) ELSE c

\* path.Join("/", elem): the non-empty elements joined by a slash, cleaned.
JoinRoot(elem) == IF elem = <<>> THEN <<"/">> ELSE Clean(<<"/", "/">> \o elem)

\* setVars, line 176: the snapshot key of a returned key.
SnapshotKey(prefix, k) == JoinRoot(TrimPrefix(k, prefix))

\* The KV snapshot: a set of <<key, value>> pairs, one per key.
Purge == {}
Set(kv, k, v) == {p \in kv : p[1] # k} \cup {<<k, v>>}

\* setVars, lines 175-177: the loop over the returned map, in any order
\* (the order of a Go map iteration): the snapshots it can leave.
RECURSIVE SetAll(_, _, _)
SetAll(kv, prefix, pairs) ==
    IF pairs = {} THEN {kv}
    ELSE UNION {SetAll(Set(kv, SnapshotKey(prefix, p[1]), p[2]), prefix, pairs \ {p}) :
                   p \in pairs}

\* setVars, lines 160-179: the snapshots it can leave and its error.
setVarsOf(kv, prefix, pairs, err) ==
    IF err # "nil" THEN {[store |-> kv, err |-> err]}
    ELSE {[store |-> st, err |-> "nil"] : st \in SetAll(Purge, prefix, pairs)}

\* What a pull returns: up to MaxPairs keys that start with the prefix, each
\* holding its own name as its value.
ResourcePrefixes == {<<"/">>, <<"/", "a">>}
Suffixes == UNION {[1..m -> {"/", "a"}] : m \in 0..MaxSuffix}
Pulls(prefix) ==
    {{<<prefix \o x, prefix \o x>> : x \in xs} :
        xs \in {ys \in SUBSET Suffixes : Cardinality(ys) <= MaxPairs}}
\* The snapshot before the pull: empty, or a pair of an earlier pull.
EarlierStores == {{}, {<<<<"/", "a">>, <<"o", "l", "d">>>>}}

Call_setVars ==
    /\ call.fn = "none"
    /\ \E prefix \in ResourcePrefixes, kv \in EarlierStores, err \in {"nil", "error"} :
          \E pairs \in Pulls(prefix) :
             \E o \in setVarsOf(kv, prefix, pairs, err) :
                call' = Called("setVars",
                               [prefix |-> prefix, store |-> kv, result |-> pairs, err |-> err],
                               o)
    /\ UNCHANGED <<procVars, renderVars>>

\* A WatchPrefix that returns at every event under the prefix.
CaresAboutAll(keys, key) == TRUE

\* WatchPrefix, etcdv.go lines 188-192: the event key has one of the keys
\* as a prefix.
CaresAbout(keys, key) == \E n \in 1..Len(keys) : HasPrefix(key, keys[n])

\* WatchPrefix, etcdv.go lines 180-196: the range over the watch channel.
\* stream holds the events the channel delivers before it is closed (the
\* stop signal has cancelled the watch, lines 168-175); version 0 is the
\* version of a deleted key.  at is the number of the event it returned at.
RECURSIVE WatchLoop(_, _, _)
WatchLoop(keys, stream, n) ==
    IF n > Len(stream) THEN [index |-> 0, err |-> "nil", at |-> 0]
    ELSE IF CaresAbout(keys, stream[n].key)
         THEN [index |-> stream[n].version, err |-> "nil", at |-> n]
    ELSE WatchLoop(keys, stream, n + 1)

\* _EtcdClient.WatchPrefix, etcdv.go lines 151-197 (and the EtcdClient of
\* resource.go, lines 493-536, line for line the same).
EtcdWatchPrefix(keys, waitIndex, newFails, stream) ==
    IF waitIndex = 0 THEN [index |-> 1, err |-> "nil", at |-> 0]
    ELSE IF newFails THEN [index |-> 1, err |-> "error", at |-> 0]
    ELSE WatchLoop(keys, stream, 1)

\* The keys a watcher hands to WatchPrefix and the events under the prefix.
WatchKeys == {<<"/", "a", "/", "a">>, <<"/", "a", "a">>, <<"/", "A">>}
WatchKeyLists == {<<>>} \cup {<<k>> : k \in WatchKeys} \cup (WatchKeys \X WatchKeys)
WatchEvents == [key : EtcdKeys, version : 0..MaxVersion]
WatchStreams == UNION {[1..m -> WatchEvents] : m \in 0..MaxEvents}

Call_EtcdWatchPrefix ==
    /\ call.fn = "none"
    /\ \E keys \in WatchKeyLists, waitIndex \in 0..MaxVersion, newFails \in BOOLEAN :
          \E stream \in WatchStreams :
             call' = Called("_EtcdClient.WatchPrefix",
                            [keys |-> keys, waitIndex |-> waitIndex, newFails |-> newFails,
                             stream |-> stream],
                            EtcdWatchPrefix(keys, waitIndex, newFails, stream))
    /\ UNCHANGED <<procVars, renderVars>>

\* The snapshots the crypt functions read: the keys of CryptKeys, in key
\* order, each absent or holding an encoded value or one that is not.
CryptKeys == <<"/a", "/b">>
CryptValues == {<<"E", "x">>, <<"x">>}
CryptStores == [1..Len(CryptKeys) -> CryptValues \cup {<<>>}]
Patterns == {"/*", "/a", "["}
NoPair == [Key |-> "", Value |-> <<>>]

\* secconfDecode(value, key): an encoded value gives its plain bytes,
\* anything else the decode error.
secconfDecode(v) ==
    IF v # <<>> /\ Head(v) = "E" THEN [b |-> Tail(v), err |-> "nil"]
    ELSE [b |-> <<>>, err |-> "decode"]

\* KVStore.Get and KVStore.GetValue without default: the pair or not-found.
StoreGet(kv, key) ==
    LET n == CHOOSE m \in 1..Len(CryptKeys) : CryptKeys[m] = key
    IN IF kv[n] = <<>> THEN [kv |-> NoPair, err |-> "not-found"]
       ELSE [kv |-> [Key |-> key, Value |-> kv[n]], err |-> "nil"]

\* KVStore.GetAll: the pairs whose key matches the glob, in key order; a
\* malformed glob is an error.
GlobMatch(pattern, key) == pattern = "/*" \/ pattern = key
StoreGetAll(kv, pattern) ==
    IF pattern = "[" THEN [kvs |-> <<>>, err |-> "bad-pattern"]
    ELSE LET ns == SelectSeq([m \in 1..Len(CryptKeys) |-> m],
                             LAMBDA m : kv[m] # <<>> /\ GlobMatch(pattern, CryptKeys[m]))
         IN [kvs |-> [j \in 1..Len(ns) |-> [Key |-> CryptKeys[ns[j]], Value |-> kv[ns[j]]]],
             err |-> "nil"]

\* Cget, part_002 lines 132-142.
Cget(kv, key) ==
    LET g == StoreGet(kv, key)
        d == secconfDecode(g.kv.Value)
    IN IF g.err # "nil" THEN [val |-> g.kv, err |-> g.err]
       ELSE IF d.err # "nil" THEN [val |-> g.kv, err |-> d.err]
       ELSE [val |-> [g.kv EXCEPT !.Value = d.b], err |-> "nil"]

\* Cgetv, part_002 lines 158-168.
Cgetv(kv, key) ==
    LET g == StoreGet(kv, key)
        d == secconfDecode(g.kv.Value)
    IN IF g.err # "nil" THEN [val |-> g.kv.Value, err |-> g.err]
       ELSE IF d.err # "nil" THEN [val |-> g.kv.Value, err |-> d.err]
       ELSE [val |-> d.b, err |-> "nil"]

\* A Cgets that returns what it has decoded so far.
OnDecodeErrorPartial(list) == list

\* Cgets and Cgetvs, part_002 lines 150 and 176: return nil and the error.
OnDecodeError(list) == <<>>

\* Cgets and Cgetvs, part_002 lines 147-153 and 173-179: the loop that
\* decodes the values of list in place, from element n on.
RECURSIVE DecodeLoop(_, _)
DecodeLoop(list, n) ==
    IF n > Len(list) THEN [val |-> list, err |-> "nil"]
    ELSE LET d == secconfDecode(list[n])
         IN IF d.err # "nil" THEN [val |-> OnDecodeError(list), err |-> d.err]
            ELSE DecodeLoop([list EXCEPT ![n] = d.b], n + 1)

\* Cgetvs, part_002 lines 170-182.
Cgetvs(kv, pattern) ==
    LET g == StoreGetAll(kv, pattern)
        vs == [j \in 1..Len(g.kvs) |-> g.kvs[j].Value]
    IN IF g.err # "nil" THEN [val |-> vs, err |-> g.err] ELSE DecodeLoop(vs, 1)

\* Cgets, part_002 lines 144-156: the same loop over the Value fields.
Cgets(kv, pattern) ==
    LET g == StoreGetAll(kv, pattern)
        o == DecodeLoop([j \in 1..Len(g.kvs) |-> g.kvs[j].Value], 1)
    IN IF g.err # "nil" THEN [val |-> g.kvs, err |-> g.err]
       ELSE [val |-> [j \in 1..Len(o.val) |-> [g.kvs[j] EXCEPT !.Value = o.val[j]]],
             err |-> o.err]

Call_Cget ==
    /\ call.fn = "none"
    /\ \E kv \in CryptStores, n \in 1..Len(CryptKeys) :
          \/ call' = Called("cget", [store |-> kv, key |-> CryptKeys[n]], Cget(kv, CryptKeys[n]))
          \/ call' = Called("cgetv", [store |-> kv, key |-> CryptKeys[n]], Cgetv(kv, CryptKeys[n]))
    /\ UNCHANGED <<procVars, renderVars>>

Call_Cgets ==
    /\ call.fn = "none"
    /\ \E kv \in CryptStores, pattern \in Patterns :
          \/ call' = Called("cgets", [store |-> kv, pattern |-> pattern], Cgets(kv, pattern))
          \/ call' = Called("cgetvs", [store |-> kv, pattern |-> pattern], Cgetvs(kv, pattern))
    /\ UNCHANGED <<procVars, renderVars>>

\* No call made yet; no processor started, no resource rendered.
InitCalls ==
    /\ call = [fn |-> "none"]
    /\ runing = 0
    /\ stoped = 0
    /\ wg = 0
    /\ option = [useOnetimeMode |-> FALSE, useIntervalMode |-> FALSE, useWatchMode |-> FALSE]
    /\ numRes = 0
    /\ cpc = [c \in Callers |-> "idle"]
    /\ nspawn = 0
    /\ sinceStop = 0
    /\ task = [i \in Tasks |-> NoTask]
    /\ tr = [CheckCmd |-> "", ReloadCmd |-> "", Mode |-> "", Src |-> "static",
             keepStageFile |-> FALSE, noop |-> FALSE, syncOnly |-> FALSE,
             StageFile |-> "nil"]
    /\ backend = 0
    /\ store = 0
    /\ dest = [exists |-> FALSE, bytes |-> <<>>, mode |-> ""]
    /\ stage = [exists |-> FALSE, bytes |-> <<>>, mode |-> ""]
    /\ rpc = "idle"
    /\ result = "none"
    /\ events = <<>>
    /\ destBefore = [exists |-> FALSE, bytes |-> <<>>, mode |-> ""]
    /\ rendered = [staged |-> FALSE, bytes |-> <<>>]
    /\ prev = [staged |-> FALSE, bytes |-> <<>>, changed |-> FALSE, result |-> "none"]

NextCalls ==
    \/ Call_NewTemplateFuncMap
    \/ Call_NewTemplateResource
    \/ Call_Reverse
    \/ Call_Seq
    \/ Call_EnvGetValues
    \/ Call_EtcdGetValues
    \/ Call_setVars
    \/ Call_EtcdWatchPrefix
    \/ Call_Cget
    \/ Call_Cgets

SpecProcessor == InitProcessor /\ [][NextProcessor]_vars

SpecRender == InitRender /\ [][NextRender]_vars

SpecCalls == InitCalls /\ [][NextCalls]_vars

\* The mode task of one Start, alone with the callers of Start and Stop.
SpecLoops == InitLoops /\ [][NextProcessor]_vars

\* ------------------------------------------------------------------ claims

\* Every step task i can take, a backend event included.
AnyTaskStep(i) ==
    \/ runOnce_Make(i) \/ runOnce_Next(i) \/ runOnce_Processed(i)
    \/ interval_Top(i) \/ interval_Next(i) \/ interval_Processed(i) \/ interval_Hook(i)
    \/ interval_Sleep(i)
    \/ WatchTaskStep(i)
    \/ \E r \in Res : monitor_Event(i, r)

Live(i) == task[i].pc \notin {"none", "done"}

\* C1: in watch mode with N >= 0 resources, once stop is requested the
\* supervisor's stop signal reaches every watcher, the watchers blocked in
\* WatchPrefix included, so every watcher ends and the supervisor's wait
\* completes.  Stated on finite runs: a watch task whose supervisor has seen
\* the stop flag is never left without a step to take (no step of the
\* supervisor, none of a watcher, no backend event) before it has returned.
C1_StopReachesEveryWatcher ==
    \A i \in Tasks :
        (task[i].mode = "watch" /\ task[i].pc \in {"send", "wait"}) => ENABLED AnyTaskStep(i)

\* C2: Stop() on a running processor returns, in every mode.  Stated on
\* finite runs: while a Stop waits for the wait-group, either the counter
\* is zero or some mode task still has a step to take.
C2_StopReturns ==
    \A c \in Callers :
        cpc[c] = "stop_wait" => (wg = 0 \/ \E i \in Tasks : Live(i) /\ ENABLED AnyTaskStep(i))

\* C3: under every interleaving of Start and Stop, no mode task is live, and
\* none is still to be spawned by a Start that won the running flag, while
\* IsRunning() is false.
C3_RunningClearedAfterTasks ==
    ~IsRunning => /\ \A i \in Tasks : ~Live(i)
                  /\ \A c \in Callers : cpc[c] # "start_won"

\* C4: across the Start calls between two completed Stops exactly one mode
\* task is spawned (the Start calls made while RUNNING are the no-ops of
\* StartRejected).
C4_OneTaskBetweenStops == sinceStop <= 1

\* C5: the mode of the task a Start spawns is onetime if asked, else interval
\* if asked, else watch if asked, else watch when the client can watch, else
\* interval; and one task is spawned, with one wg.Add.
C5_ModeByPriority ==
    [][nspawn' # nspawn =>
         LET t == task'[nspawn']
             o == option'
             w == WatchEnabled(t.client)
         IN /\ nspawn' = nspawn + 1
            /\ wg' = wg + 1
            /\ \A j \in Tasks \ {nspawn'} : task'[j] = task[j]
            /\ t.pc = "start"
            /\ t.mode \in {"onetime", "interval", "watch"}
            /\ (t.mode = "onetime") = o.useOnetimeMode
            /\ (t.mode = "interval") =
                   (~o.useOnetimeMode /\ (o.useIntervalMode \/ (~o.useWatchMode /\ ~w)))
            /\ (t.mode = "watch") =
                   (~o.useOnetimeMode /\ ~o.useIntervalMode /\ (o.useWatchMode \/ w))
    ]_vars

\* C5 witness: with no flag set and a client that can watch, a watch task
\* has just been spawned; and with all three flags set a onetime task.
C5_Witness ==
    /\ nspawn = MaxSpawn
    /\ task[1].mode = "watch" /\ task[1].client = "etcd" /\ Live(1)
    /\ task[nspawn].mode = "onetime" /\ task[nspawn].pc = "start"
    /\ option = [useOnetimeMode |-> TRUE, useIntervalMode |-> TRUE, useWatchMode |-> TRUE]


\* C11: in onetime mode a failing resource does not stop the later ones,
\* and once the resources have been attempted the error of the first
\* failing resource is returned to the caller (no failure: no error).
\* Here: what the caller of Start receives from a finished onetime task is
\* what runOnce returned.
C11_FirstErrorReachesCaller ==
    \A i \in Tasks :
        (task[i].pc = "done" /\ task[i].ret \notin {Nil, MakeError})
            => GoResult(task[i].ret) = task[i].ret

\* C12: in interval mode no error ends the loop: the task leaves the loop
\* only because the stop flag is set (a failed discovery or render is
\* followed by the sleep and the next cycle).
C12_IntervalEndsOnlyOnStop ==
    [][\A i \in Tasks :
          (task[i].mode = "interval" /\ task'[i].pc = "done") => isStoped]_vars

\* The mode tasks (and, in watch mode, their watcher of r) that are inside
\* t.Process of resource r.
Rendering(r) ==
    {i \in Tasks :
        \/ task[i].mode \in {"onetime", "interval"} /\ task[i].pc = "render" /\ task[i].idx = r
        \/ task[i].mode = "watch" /\ task[i].wpc[r] = "render"}

\* C13: for a single resource (destination) renders are totally ordered:
\* in every mode, across restarts and concurrent Start/Stop calls, at most
\* one render of it is in progress at any time.
C13_OneRenderAtATime == \A r \in Res : Cardinality(Rendering(r)) <= 1

\* C14: for every client, WatchPrefix called with waitIndex 0 returns
\* (1, nil) at once, waiting neither for a backend event nor for the stop
\* signal: no watcher is blocked inside a WatchPrefix it called with its
\* lastIndex at 0.
C14_FirstWatchReturnsAtOnce ==
    \A i \in Tasks : \A r \in Res :
        task[i].wpc[r] = "blocked" => task[i].lastIndex[r] # 0

\* The positions a watcher may go to from each of its positions.
WatcherOrder ==
    [none |-> {"top"},
     top |-> {"blocked", "render", "done"},
     blocked |-> {"render"},
     render |-> {"hook", "top"},
     hook |-> {"top"},
     done |-> {}]

\* One step seen from the watcher of resource r in watch task i.
WatcherCycle(i, r) ==
    LET a == task[i].wpc[r]
        b == task'[i].wpc[r]
    IN (task[i].mode = "watch" /\ task'[i].mode = "watch") =>
          /\ a # b => b \in WatcherOrder[a]
          /\ (a = "none" /\ b = "top") => task'[i].lastIndex[r] = 0
          /\ (a = "top" /\ b = "blocked") =>
                /\ task'[i].waitIndex[r] = task[i].lastIndex[r]
                /\ task'[i].lastIndex[r] = task[i].lastIndex[r]
          /\ a = "blocked" => task[i].waitIndex[r] = task[i].lastIndex[r]
          /\ task'[i].lastIndex[r] # task[i].lastIndex[r] =>
                a \in {"top", "blocked"} /\ b \in {"render", "done"}
          /\ a \in {"render", "hook"} => b \in {"render", "hook", "top"}

\* C25: each watcher repeats WatchPrefix(prefix, keys, lastIndex), store
\* the returned index in lastIndex, render: the first call is made with
\* lastIndex 0, every later call with the index the call before returned,
\* and a render that fails does not end the watcher: it goes back to the
\* head of its loop.
C25_WatcherCycle == [][\A i \in Tasks : \A r \in Res : WatcherCycle(i, r)]_vars

\* C25 witness: a watcher of the etcd client whose render has failed, next
\* to one that is blocked in a WatchPrefix it called with the index 1 its
\* call before returned, while no stop is requested.
C25_Witness ==
    \E i \in Tasks :
        /\ task[i].mode = "watch" /\ task[i].client = "etcd" /\ ~isStoped
        /\ task[i].wpc[1] = "hook" /\ task[i].lastIndex[1] = 1
        /\ task[i].wpc[2] = "blocked" /\ task[i].waitIndex[2] = 1

\* One step seen from task i: an error on its way to HookError comes from
\* a render, and after it the loop goes on where it would after a render
\* without error.
ErrorDelivered(i) ==
    LET t == task[i]
        u == task'[i]
    IN /\ (u.mode = "interval" /\ u.pc = "hook" /\ t.pc # "hook") =>
             t.pc = "render" /\ u.idx = t.idx /\ t.idx \in 1..numRes
       /\ (t.mode = "interval" /\ t.pc = "hook" /\ u # t) =>
             /\ u.mode = "interval"
             /\ IF t.idx < numRes THEN u.pc = "loop" /\ u.idx = t.idx + 1
                ELSE u.pc = "sleep"
       /\ (t.mode = "watch" /\ u.mode = "watch") =>
             \A r \in Res :
                /\ (u.wpc[r] = "hook" /\ t.wpc[r] # "hook") => t.wpc[r] = "render"
                /\ t.wpc[r] = "hook" => u.wpc[r] \in {"hook", "top"}
       /\ (t.mode = "watch" /\ \E r \in Res : t.wpc[r] = "hook") => u.mode = "watch"

C29_NoStaleStopRequest ==
    \A c \in Callers : (cpc[c] = "idle" /\ ~IsRunning) => ~isStoped

\* One step seen from the running flag: it is cleared by line 82 of a Stop
\* and by nothing else, a mode task that returns leaves it, and a caller
\* that is free while it is set does not become the winner of a Start.
LeavesRunningByStop ==
    /\ (runing = 1 /\ runing' = 0) =>
          \E c \in Callers : cpc[c] = "stop_runing" /\ cpc'[c] = "stop_stoped"
    /\ \A i \in Tasks :
          (task[i].pc # "done" /\ task'[i].pc = "done") => runing' = runing
    /\ IsRunning =>
          /\ \A c \in Callers : cpc[c] = "idle" => cpc'[c] # "start_won"
          /\ (\A c \in Callers : cpc[c] # "start_won") =>
                (nspawn' = nspawn /\ wg' <= wg /\ option' = option)

\* C30: the processor leaves RUNNING only through Stop(): a mode task that
\* ends on its own (the onetime pass is over, resource discovery failed)
\* leaves IsRunning() true, and a Start() called while the flag is set is
\* rejected: it spawns nothing.
C30_LeavesRunningOnlyByStop == [][LeavesRunningByStop]_vars

\* C30 witness: the onetime task of the last Start has returned the error
\* of resource 1, no Stop has been called since, the processor is still
\* running and a caller's Start is rejected.
C30_Witness ==
    /\ nspawn = MaxSpawn /\ sinceStop = 1
    /\ task[nspawn].pc = "done" /\ task[nspawn].ret = ProcessError(1)
    /\ IsRunning /\ ~isStoped /\ wg = 0
    /\ \A c \in Callers : cpc[c] = "idle" /\ ENABLED StartRejected(c)

\* A Stop has stored the stop flag (line 79) and has not yet returned from
\* its wg.Wait() (line 80): stop has been requested.
StopRequested == \E c \in Callers : cpc[c] = "stop_wait"

\* One step seen from the watcher of resource r in watch task i once stop
\* has been requested: at the head of its loop it only ends, it begins a
\* render only on return from the WatchPrefix call it was in, and it
\* enters no WatchPrefix call.
WatcherWindsDown(i, r) ==
    LET a == task[i].wpc[r]
        b == task'[i].wpc[r]
    IN (task[i].mode = "watch" /\ task'[i].mode = "watch") =>
          /\ a = "top" => b \in {"top", "done"}
          /\ (b = "render" /\ a # "render") => a = "blocked"
          /\ b = "blocked" => a = "blocked"

\* C32: once stop has been requested each watcher begins at most one
\* further render (the one that follows the WatchPrefix call it was in,
\* none if it was rendering), and no watcher calls WatchPrefix again after
\* it has observed the stop flag.
C32_AtMostOneRenderAfterStop ==
    [][StopRequested => \A i \in Tasks : \A r \in Res : WatcherWindsDown(i, r)]_vars

\* The WatchPrefix call of the watcher of r in task i returns an error.
WatchFails(i, r) == monitor_Top(i, r) /\ task'[i].werr[r]

\* The watcher of r in task i of the etcd client, in one state and in one
\* step: a WatchPrefix call that returns an error has its index stored and
\* is followed by a render as a change is; called with lastIndex 0 the
\* call returns at once; while no stop is requested a watcher at the head
\* of its loop whose lastIndex is not 0 can be failed again at once, and
\* it leaves its loop only when stop is requested.
WatchErrorHandled(i, r) ==
    LET t == task[i]
        u == task'[i]
        a == t.wpc[r]
        b == u.wpc[r]
    IN (t.mode = "watch" /\ t.client = "etcd") =>
          /\ (a = "top" /\ ~isStoped /\ t.lastIndex[r] # 0) => ENABLED WatchFails(i, r)
          /\ u.mode = "watch" =>
                /\ (u.werr[r] /\ ~t.werr[r]) =>
                      /\ a = "top" /\ b = "render" /\ ~isStoped
                      /\ u.lastIndex[r] = 1
                /\ t.werr[r] => (a = "render" /\ b \in {"render", "hook", "top"})
                /\ (a = "top" /\ t.lastIndex[r] = 0 /\ ~isStoped /\ b # a) =>
                      (b = "render" /\ u.lastIndex[r] = 1)
                /\ (a = "top" /\ b = "done") => isStoped

\* C33: a WatchPrefix call that returns an error is handled like a change:
\* the returned index is stored in lastIndex and a render still runs; with
\* index 0 the next call returns at once; a backend that fails every call
\* makes the watcher render in a loop without blocking, until stop is
\* requested.
C33_WatchErrorIsAChange == [][\A i \in Tasks : \A r \in Res : WatchErrorHandled(i, r)]_vars

\* C33 witness: a watcher of the etcd client is in the render that follows
\* a WatchPrefix call that returned an error, its second failed call in a
\* row is open to the watcher next to it, and no stop is requested.
C33_Witness ==
    \E i \in Tasks :
        /\ task[i].mode = "watch" /\ task[i].client = "etcd" /\ ~isStoped
        /\ task[i].wpc[1] = "render" /\ task[i].werr[1] /\ task[i].lastIndex[1] = 1
        /\ task[i].wpc[2] = "top" /\ task[i].lastIndex[2] = 1
        /\ ENABLED WatchFails(i, 2)

\* ---- claims about library functions (SpecCalls)

\* C15: cget, cgets, cgetv and cgetvs are in a resource's function map if
\* and only if a non-empty PGP private key is configured; exists, ls, lsdir,
\* get, gets, getv and getvs are always in it.
C15_CryptFuncsIffKey ==
    call.fn \in {"NewTemplateFuncMap", "NewTemplateResource"} =>
        /\ \A f \in CryptFuncs : f \in call.out <=> Len(call.in) > 0
        /\ {"exists", "ls", "lsdir", "get", "gets", "getv", "getvs"} \subseteq call.out

\* C15 witness: a resource built with a key of two bytes has cgetvs.
C15_Witness ==
    /\ call.fn = "NewTemplateResource"
    /\ Len(call.in) = 2
    /\ "cgetvs" \in call.out

\* C18: reverse is an involution on sequences of strings and of KV pairs,
\* and reverse(xs) has the elements of xs in exactly the opposite order.
C18_ReverseInvolution ==
    (call.fn = "reverse" /\ call.in.type \in {"[]string", "[]KVPair"}) =>
        /\ Reverse(call.out) = call.in
        /\ Len(call.out.v) = Len(call.in.v)
        /\ \A k \in 1..Len(call.in.v) : call.out.v[k] = call.in.v[Len(call.in.v) + 1 - k]

\* C18 witness: three KV pairs, not a palindrome, reversed.
C18_Witness ==
    /\ call.fn = "reverse" /\ call.in.type = "[]KVPair"
    /\ Len(call.in.v) = 3 /\ call.in.v[1] # call.in.v[3]
    /\ call.out.v[1] = call.in.v[3]

\* C19: for all integers a and b, seq(a, b) has length max(0, b-a+1),
\* starts at a, ends at b when it is not empty, and rises by steps of 1.
C19_SeqRange ==
    call.fn = "seq" =>
        LET a == call.in[1]
            b == call.in[2]
            arr == call.out.arr
        IN /\ call.out.returns
           /\ Len(arr) = IF b - a + 1 > 0 THEN b - a + 1 ELSE 0
           /\ Len(arr) > 0 => arr[1] = a /\ arr[Len(arr)] = b
           /\ \A k \in 1..(Len(arr) - 1) : arr[k + 1] = arr[k] + 1

\* get(k) of the snapshot kv: the values stored under k.
Get(kv, k) == {p[2] : p \in {q \in kv : q[1] = k}}

\* C16: after a successful pull the snapshot holds exactly the pairs the
\* backend returned, re-keyed with the prefix stripped: get("/"+k) == v if
\* and only if the backend returned (prefix+k, v); no pair of an earlier
\* pull that the backend no longer returns survives.
C16_SnapshotIsPull ==
    (call.fn = "setVars" /\ call.in.err = "nil") =>
        /\ call.out.err = "nil"
        /\ \A p \in call.in.result :
              Get(call.out.store, JoinRoot(TrimPrefix(p[1], call.in.prefix))) = {p[2]}
        /\ \A q \in call.out.store :
              \E p \in call.in.result :
                 q = <<JoinRoot(TrimPrefix(p[1], call.in.prefix)), p[2]>>

\* The pairs of a backend as GetValues names them: an etcd key is its own
\* name, an environment variable is named by clean.
BackendPairs(c) ==
    IF c.fn = "EnvClient.GetValues"
    THEN {<<clean(e), e>> : e \in c.in.backend}
    ELSE {<<k, k>> : k \in c.in.backend}

\* C17: GetValues(keys) treats each key as a prefix and returns the union
\* of the backend pairs whose key starts with one of the keys; with the
\* empty key it returns every pair; an empty result is no error.
C17_GetValuesPrefixUnion ==
    (/\ call.fn \in {"EnvClient.GetValues", "_EtcdClient.GetValues"}
     /\ call.fn = "_EtcdClient.GetValues" => ~call.in.failed)
        => /\ call.out.err = "nil"
           /\ call.out.vars =
                 {p \in BackendPairs(call) :
                     \E n \in 1..Len(call.in.keys) : HasPrefix(p[1], call.in.keys[n])}

\* The events of the stream of call that have one of its keys as a prefix.
MatchingEvents ==
    {n \in 1..Len(call.in.stream) :
        \E k \in 1..Len(call.in.keys) : HasPrefix(call.in.stream[n].key, call.in.keys[k])}

\* C26: the etcd WatchPrefix called with waitIndex > 0 returns a change
\* only for an event whose key has one of the given keys as a prefix (the
\* first such event, with its version); events that match none of the keys
\* do not make it return, and when the stop signal ends the watch it
\* returns (0, nil).
C26_WatchReturnsOnMatch ==
    (/\ call.fn = "_EtcdClient.WatchPrefix"
     /\ call.in.waitIndex > 0 /\ ~call.in.newFails) =>
        /\ call.out.err = "nil"
        /\ call.out.at # 0 =>
              /\ call.out.at \in MatchingEvents
              /\ \A n \in MatchingEvents : call.out.at <= n
              /\ call.out.index = call.in.stream[call.out.at].version
        /\ call.out.at = 0 => MatchingEvents = {} /\ call.out.index = 0

\* C26 witness: a watch passed over an event that matched none of its keys
\* and returned at the next one, which matched.
C26_Witness ==
    /\ call.fn = "_EtcdClient.WatchPrefix"
    /\ call.in.waitIndex > 0 /\ ~call.in.newFails
    /\ call.in.keys = <<<<"/", "a", "/", "a">>>>
    /\ Len(call.in.stream) = 2 /\ call.in.stream[1].key = <<"/", "a", "a">>
    /\ call.out = [index |-> 1, err |-> "nil", at |-> 2]

\* The values the plain counterpart of a cgets or cgetvs call returns.
PlainValues ==
    LET g == StoreGetAll(call.in.store, call.in.pattern)
    IN [j \in 1..Len(g.kvs) |-> g.kvs[j].Value]

Returned == rpc = "done"

\* C6: a render that returns success with noop off leaves dest holding
\* exactly the bytes the template produced, whatever dest was before and
\* whichever of rename and fallback write put them there.
C6_DestHoldsRendered ==
    (Returned /\ result = "ok" /\ ~tr.noop)
        => rendered.staged /\ dest.exists /\ dest.bytes = rendered.bytes

\* C6 witness: a successful render that replaced a different dest through
\* the fallback write, after a check that passed.
C6_Witness ==
    /\ Returned /\ result = "ok" /\ ~tr.noop
    /\ events = <<"check:ok", "rename:busy", "write:ok">>
    /\ destBefore.exists /\ destBefore.bytes # rendered.bytes
    /\ dest.bytes = <<"port=", 2>>

\* The errors process() returns before sync attempts the rename.
BeforeRename ==
    {"ModeError", "BackendError", "MissingTemplate", "ParseError", "StageError",
     "TemplateError", "CheckFailed"}

\* C7: a render that fails before the rename (mode, pull, template, stage
\* file, check) leaves dest as it was, with no rename and no write tried;
\* a check that exits non-zero makes the render return check-failed.
C7_FailureLeavesDest ==
    Returned =>
        /\ result \in BeforeRename => dest = destBefore /\ events \in {<<>>, <<"check:fail">>}
        /\ (\E k \in 1..Len(events) : events[k] = "check:fail")
              => result = "CheckFailed" /\ dest = destBefore

\* C7 witness: the check failed on a render whose output differs from an
\* existing dest.
C7_Witness ==
    /\ Returned /\ result = "CheckFailed"
    /\ events = <<"check:fail">>
    /\ rendered.staged /\ dest.exists /\ dest.bytes # rendered.bytes

\* C8: when the render returns, the stage file it created is gone from
\* disk unless it was renamed to dest; after success it may stay when
\* keepStageFile is set, after a failure it is removed always.
C8_StageGone ==
    (Returned /\ stage.exists) => (result = "ok" /\ tr.keepStageFile)

\* C9 as stated: a noop render leaves dest unchanged, runs no command,
\* returns success once the template is staged and removes the stage file.
C9_NoopAsStated ==
    (Returned /\ tr.noop) =>
        /\ dest = destBefore
        /\ events = <<>>
        /\ rendered.staged => result = "ok"
        /\ ~stage.exists

\* C9: a noop render leaves dest unchanged, runs no command and returns
\* success once the template is staged; its stage file is removed unless
\* keepStageFile is set.
C9_NoopChangesNothing ==
    (Returned /\ tr.noop) =>
        /\ dest = destBefore
        /\ events = <<>>
        /\ rendered.staged => result = "ok"
        /\ stage.exists <=> (tr.keepStageFile /\ rendered.staged)

\* C9 witness: a noop render whose output differs from dest, with commands
\* configured.
C9_Witness ==
    /\ Returned /\ tr.noop /\ ~tr.syncOnly /\ ~tr.keepStageFile
    /\ tr.CheckCmd # "" /\ tr.ReloadCmd # ""
    /\ rendered.staged /\ dest.exists /\ dest.bytes # rendered.bytes

\* The render staged bytes equal to what dest held when it began.
RenderedEqualsDest ==
    rendered.staged /\ destBefore.exists /\ destBefore.bytes = rendered.bytes

\* The render repeats the one before: both staged the same bytes.
SameRenderTwice ==
    prev.staged /\ rendered.staged /\ prev.bytes = rendered.bytes

StepOrder ==
    [idle |-> {"setVars", "done"},
     setVars |-> {"createStageFile", "done"},
     createStageFile |-> {"sync", "done"},
     sync |-> {"check", "rename", "done"},
     check |-> {"rename", "done"},
     rename |-> {"fallback", "reload", "done"},
     fallback |-> {"reload", "done"},
     reload |-> {"done"},
     done |-> {"idle"}]

\* The errors of each step of process().
StepErrors ==
    [idle |-> {"ModeError"},
     setVars |-> {"BackendError"},
     createStageFile |-> {"MissingTemplate", "ParseError", "StageError", "TemplateError"},
     sync |-> {},
     check |-> {"CheckFailed"},
     rename |-> {"RenameError"},
     fallback |-> {"ReadError", "WriteError"},
     reload |-> {"ReloadFailed"},
     done |-> {}]

\* One step of a render (anything but the return to the caller and a change
\* of the backend) keeps the order and ends the render with its own error.
RenderStepInOrder ==
    /\ rpc' # rpc => rpc' \in StepOrder[rpc]
    /\ (rpc # "done" /\ rpc' = "done") =>
          /\ result' \in StepErrors[rpc] \cup {"ok"}
          /\ rpc \in {"idle", "setVars", "createStageFile"} => result' \in StepErrors[rpc]
    /\ rpc' # "done" => result' = "none" \/ rpc' = "idle"
    /\ store' # store => rpc = "setVars" /\ rpc' = "createStageFile"
    /\ (stage'.exists /\ ~stage.exists) => rpc = "createStageFile" /\ rpc' = "sync"
    /\ dest' # dest => rpc \in {"rename", "fallback"}
    /\ events' # events => rpc \in {"idle", "check", "rename", "fallback", "reload"}

CheckEvents == {"check:ok", "check:fail"}
SwapEvents == {"rename:ok", "rename:busy", "rename:error", "write:ok", "write:fail"}
ReloadEvents == {"reload:ok", "reload:fail"}
\* dest holds the bytes the render staged.
DestIsRendered == rendered.staged /\ dest.exists /\ dest.bytes = rendered.bytes

\* C21: within one render check_cmd comes before the swap of dest and the
\* swap before reload_cmd; reload_cmd runs only after dest has been
\* replaced by the staged content and only if check_cmd passed or was not
\* run; when reload_cmd exits non-zero the render returns an error while
\* dest holds the new content.
C21_CheckSwapReload ==
    /\ \A j \in 1..Len(events) : \A k \in (j + 1)..Len(events) :
          /\ events[k] \in CheckEvents => events[j] \notin SwapEvents \cup ReloadEvents
          /\ events[k] \in SwapEvents => events[j] \notin ReloadEvents
    /\ \A k \in 1..Len(events) :
          events[k] \in ReloadEvents =>
             /\ \E j \in 1..(k - 1) : events[j] \in {"rename:ok", "write:ok"}
             /\ \A j \in 1..(k - 1) : events[j] # "check:fail"
             /\ DestIsRendered
    /\ rpc = "reload" => DestIsRendered
    /\ (Returned /\ \E k \in 1..Len(events) : events[k] = "reload:fail")
          => result = "ReloadFailed" /\ DestIsRendered

\* C21 witness: the check passed, the rename replaced a different dest and
\* the reload command failed.
C21_Witness ==
    /\ Returned /\ result = "ReloadFailed"
    /\ events = <<"check:ok", "rename:ok", "reload:fail">>
    /\ destBefore.exists /\ dest # destBefore /\ DestIsRendered

\* The render staged bytes that differ from what dest held when it began.
RenderedDiffers == rendered.staged /\ ~RenderedEqualsDest

Happened(e) == \E k \in 1..Len(events) : events[k] = e

\* C23: when the rename fails with device or resource busy the render
\* writes the staged bytes into dest, dest then has the mode of the
\* resource, and the render goes on to reload; when the rename fails with
\* another error the render returns that error, dest is unchanged and
\* reload_cmd is not run.
C23_BusyFallsBackToWrite ==
    /\ (Happened("rename:busy") /\ Happened("write:ok")) =>
          /\ DestIsRendered
          /\ dest.mode = FileMode(tr, destBefore)
          /\ (Returned /\ RunsReload(tr)) => events[Len(events)] \in ReloadEvents
    /\ (Happened("rename:busy") /\ rpc \notin {"fallback", "done", "idle"}) => rpc = "reload"
    /\ Happened("rename:error") =>
          /\ rpc \in {"done", "idle"} /\ result = "RenameError"
          /\ dest = destBefore
          /\ \A k \in 1..Len(events) : events[k] \notin ReloadEvents

\* C24: after a render has returned, with success or with an error, and
\* until the next one begins, the resource holds no reference to a stage
\* file (t.StageFile is nil).
C24_NoStageReference == rpc \in {"done", "idle"} => tr.StageFile = "nil"

\* One step seen from the snapshot: the step in which GetValues fails ends
\* process() with the backend error and leaves the store, the resource,
\* the destination and the (absent) stage file; and the store changes in
\* no step but that of a pull that succeeds, which makes it the backend's.
PullFailureLeavesStore ==
    /\ (rpc = "setVars" /\ rpc' = "done") =>
          /\ result' = "BackendError"
          /\ store' = store
          /\ stage = NoFile /\ stage' = NoFile
          /\ rendered' = NotStaged
          /\ tr' = tr /\ dest' = dest /\ events' = events
    /\ store' # store =>
          (rpc = "setVars" /\ rpc' = "createStageFile" /\ store' = backend)

\* C31: when the GetValues call of a render fails, the snapshot is left as
\* the previous successful pull populated it, neither purged nor partly
\* updated, and no stage file is created.
C31_FailedPullKeepsSnapshot == [][PullFailureLeavesStore]_vars

\* C31 witness: a render has ended with the backend error while the store
\* holds the value of an earlier pull, which the backend has since changed.
C31_Witness ==
    /\ rpc = "done" /\ result = "BackendError"
    /\ store # 0 /\ backend # store
    /\ stage = NoFile /\ ~rendered.staged
    /\ prev.result = "ok"
====
